---- MODULE Spec2Model ----
(***************************************************************************)
(* Model of main.py: DatabaseManager over the PostgreSQL table "offices"   *)
(* (an adjacency list of offices, departments and staff), the menu loop    *)
(* that drives it, and the generator _create_random_data.                  *)
(*                                                                         *)
(* Spec     : the menu loop (load from file, load generated data, query,   *)
(*            wipe) over the committed contents of the table.              *)
(* LiveSpec : Spec plus the fairness of the single thread that runs a      *)
(*            started query to its end.                                    *)
(* GenSpec  : the generator _create_random_data resumed one yield at a     *)
(*            time.                                                        *)
(***************************************************************************)
EXTENDS Integers, Sequences, FiniteSets, TLC

VARIABLES
    table_exists,   \* information_schema.tables has a row for 'offices'
    offices,        \* committed rows of the table offices
    op,             \* the menu case whose handler ran last
    out,            \* what that handler and its menu case printed, in order
    raised,         \* an exception escaped the handler into the menu loop
    staffs,         \* value returned by _get_staffs_by_staff_id
    pc,             \* "menu": at the prompt; "execute": inside the query;
                    \* "handled": the handler of the chosen case has ended
    inserted,       \* INSERTs of the last load that succeeded before it ended
    q_id,           \* staff_id parameter of the query
    q_eval,         \* the executor evaluates the scalar sub-select
    q_n,            \* rows of the CTE ancestors pulled so far
    q_next,         \* id of the row the CTE yields next, NULL when exhausted
    q_third,        \* id of the third row of ancestors, NULL when not reached
    wiped,          \* history: DELETE committed and no INSERT committed since
    deleted,        \* history: the number of rows that DELETE removed
    gen             \* frame of the generator _create_random_data

vars == <<table_exists, offices, op, out, raised, staffs, pc, inserted, q_id,
          q_eval, q_n, q_next, q_third, wiped, deleted, gen>>

storeVars == <<table_exists, offices, op, out, raised, staffs, pc, inserted, q_id,
               q_eval, q_n, q_next, q_third, wiped, deleted>>

(***************************************************************************)
(* Bounds.                                                                 *)
(***************************************************************************)
\* longest JSON file (number of records) a load reads
MaxBatch == 2
\* range(100) offices, scaled down
GenOffices == 2
\* random.randint(40, 80) departments per office, scaled down
GenDeptMin == 1
GenDeptMax == 2
\* random.randint(30, 1000) staff per department, scaled down
GenStaffMin == 1
GenStaffMax == 2

(***************************************************************************)
(* Values.                                                                 *)
(***************************************************************************)
\* Python None / SQL NULL; ids are positive
NULL == 0
\* OFFSET of the scalar sub-select over ancestors
OFFSET == 2
TypeOffice == 1
TypeDepartment == 2
TypeStaff == 3

Row(id, parent_id, name, type) ==
    [id |-> id, parent_id |-> parent_id, name |-> name, type |-> type]

Range(s) == {s[k] : k \in 1..Len(s)}

(***************************************************************************)
(* import_json: the records of a JSON file.  A record is an object, the    *)
(* ordered list of its <<key, value>> members; _get_data yields its values *)
(* in member order, whatever the keys are.                                 *)
(***************************************************************************)
Obj(id, parent_id, name, type) ==
    << <<"id", id>>, <<"parent_id", parent_id>>, <<"name", name>>, <<"type", type>> >>

\* two offices (1 with departments 2 and 3, 6 with department 7), rows that
\* break the hierarchy (staff 4 under staff 5, office 1 under its own
\* department 3, node 8 as its own parent) and a record that lacks the
\* member "type"; a department or staff loaded without its parent dangles
FileRecords ==
    { Obj(1, NULL, "O1", 1), Obj(2, 1, "D2", 2), Obj(3, 1, "D3", 2),
      Obj(4, 2, "A", 3), Obj(5, 3, "B", 3),
      Obj(6, NULL, "O6", 1), Obj(7, 6, "D7", 2), Obj(8, 7, "A", 3),
      Obj(4, 5, "A", 3), Obj(1, 3, "O1", 1), Obj(8, 8, "A", 3),
      << <<"id", 5>>, <<"parent_id", 3>>, <<"name", "B">> >> }

\* ids a query is asked for: every id a file can hold and one no file holds
QueryIds == 1..9

Files ==
    UNION {[1..n -> FileRecords] : n \in 1..MaxBatch}

\* [v for v in d.values()]
Values(d) == [k \in 1..Len(d) |-> d[k][2]]

GetData(file) == [k \in 1..Len(file) |-> Values(file[k])]

(***************************************************************************)
(* cursor.executemany: one INSERT per element of data, in order, inside    *)
(* the open transaction; the first failing INSERT raises.                  *)
(***************************************************************************)
\* INSERT INTO offices (id, parent_id, name, type) VALUES (%s, %s, %s, %s):
\* fails when the parameter list does not fill the four placeholders and
\* when the primary key id is already present
InsertFails(rows, t) ==
    \/ Len(t) # 4
    \/ \E r \in rows : r.id = t[1]

Insert(rows, t) == rows \cup {Row(t[1], t[2], t[3], t[4])}

RECURSIVE ExecuteMany(_, _)
ExecuteMany(rows, tuples) ==
    IF tuples = <<>> THEN [ok |-> TRUE, rows |-> rows]
    ELSE IF InsertFails(rows, Head(tuples)) THEN [ok |-> FALSE, rows |-> rows]
    ELSE ExecuteMany(Insert(rows, Head(tuples)), Tail(tuples))

\* variant: no rollback, the rows inserted before the failure stay
Rollback_Keep(committed, working) == working

\* conn.rollback(): the table is back at its last committed contents
Rollback(committed, working) == committed

(***************************************************************************)
(* _create_random_data: a generator.  Its frame holds the locals and the   *)
(* yield it is suspended at; each resumption runs to the next yield.       *)
(***************************************************************************)
GenStart ==
    [pos |-> "start", i |-> 0, office_index |-> 0, office_id |-> NULL,
     dept_n |-> 0, department_index |-> 0, department_id |-> NULL,
     staff_n |-> 0, staff_index |-> 0, yielded |-> <<>>]

\* f"Офис_{...}", f"Отдел_{...}", f"Сотрудник_{...}"
OfficeName(r) == "Office_" \o ToString(r)
DepartmentName(r) == "Department_" \o ToString(r)
StaffName(r) == "Staff_" \o ToString(r)

\* i += 1
Increment(i) == i + 1

\* the office: i += 1 ... yield (office_id, office_parent_id, office_name, type)
YieldOffice(g, r) ==
    [g EXCEPT !.pos = "office",
              !.i = Increment(g.i),
              !.office_id = Increment(g.i),
              !.yielded = Append(g.yielded,
                  <<Increment(g.i), NULL, OfficeName(r), TypeOffice>>)]

\* a department of office_id
YieldDepartment(g, r) ==
    [g EXCEPT !.pos = "department",
              !.i = Increment(g.i),
              !.department_id = Increment(g.i),
              !.yielded = Append(g.yielded,
                  <<Increment(g.i), g.office_id, DepartmentName(r), TypeDepartment>>)]

\* variant: a staff is put under the office
YieldStaff_UnderOffice(g, r) ==
    [g EXCEPT !.pos = "staff",
              !.i = Increment(g.i),
              !.yielded = Append(g.yielded,
                  <<Increment(g.i), g.office_id, StaffName(r), TypeStaff>>)]

\* a staff of department_id
YieldStaff(g, r) ==
    [g EXCEPT !.pos = "staff",
              !.i = Increment(g.i),
              !.yielded = Append(g.yielded,
                  <<Increment(g.i), g.department_id, StaffName(r), TypeStaff>>)]

\* the random.randint a resumption draws for the range of the loop it
\* enters (none when it enters no loop), and for the name it yields
CountDraws(g) ==
    IF g.pos = "office" THEN GenDeptMin..GenDeptMax
    ELSE IF g.pos = "department" THEN GenStaffMin..GenStaffMax
    ELSE {0}

\* random.randint(1, 10000000000): a name is a label, never a key, and two
\* nodes may draw the same suffix; one suffix stands for the draw
SuffixDraws == {1}

\* next(generator) with the draws c (a loop range) and r (a name suffix);
\* every range drawn holds at least one index, as randint(40, 80) and
\* randint(30, 1000) do
GenResume(g, c, r) ==
    IF g.pos = "start"
    THEN IF 0 < GenOffices
         THEN YieldOffice([g EXCEPT !.office_index = 0], r)
         ELSE [g EXCEPT !.pos = "done"]
    ELSE IF g.pos = "office"
    THEN YieldDepartment([g EXCEPT !.dept_n = c, !.department_index = 0], r)
    ELSE IF g.pos = "department"
    THEN YieldStaff([g EXCEPT !.staff_n = c, !.staff_index = 0], r)
    ELSE IF g.staff_index + 1 < g.staff_n
    THEN YieldStaff([g EXCEPT !.staff_index = g.staff_index + 1], r)
    ELSE IF g.department_index + 1 < g.dept_n
    THEN YieldDepartment([g EXCEPT !.department_index = g.department_index + 1], r)
    ELSE IF g.office_index + 1 < GenOffices
    THEN YieldOffice([g EXCEPT !.office_index = g.office_index + 1], r)
    ELSE [g EXCEPT !.pos = "done"]

\* every sequence a complete run of the generator can yield
RECURSIVE GenRuns(_)
GenRuns(g) ==
    IF g.pos = "done" THEN {g.yielded}
    ELSE UNION {GenRuns(GenResume(g, c, r)) : c \in CountDraws(g), r \in SuffixDraws}

CreateRandomData == GenRuns(GenStart)

\* random_fill: executemany draws the tuples from the generator one next()
\* at a time and stops drawing at the first INSERT that fails; every result
\* the draws of the run allow
RECURSIVE RandomFill(_, _)
RandomFill(rows, g) ==
    UNION { LET h == GenResume(g, c, r)
                t == h.yielded[Len(h.yielded)]
            IN  IF h.pos = "done" THEN {[ok |-> TRUE, rows |-> rows]}
                ELSE IF InsertFails(rows, t) THEN {[ok |-> FALSE, rows |-> rows]}
                ELSE RandomFill(Insert(rows, t), h)
          : c \in CountDraws(g), r \in SuffixDraws }

\* import_json: executemany over the records of the file
ImportJson(rows, file) == ExecuteMany(rows, GetData(file))

(***************************************************************************)
(* make_data: the existence check and the conditional CREATE TABLE, the    *)
(* load, the commit or the rollback.                                       *)
(***************************************************************************)
\* variant: CREATE TABLE without the existence check, an error ("relation
\* already exists") on an existing table
EnsureSchema_NoCheck(db) ==
    IF ~db.exists
    THEN [exists |-> TRUE, rows |-> {}, created |-> TRUE, error |-> FALSE]
    ELSE [exists |-> db.exists, rows |-> db.rows, created |-> FALSE, error |-> TRUE]

EnsureSchema(db) ==
    IF ~db.exists
    THEN [exists |-> TRUE, rows |-> {}, created |-> TRUE, error |-> FALSE]
    ELSE [exists |-> db.exists, rows |-> db.rows, created |-> FALSE, error |-> FALSE]

\* the store and the printed lines after make_data, s being the result of
\* the schema step and ins that of executemany; inserted counts the INSERTs
\* that had succeeded when executemany ended
MakeData(db, s, ins) ==
    LET created == IF s.created THEN <<"db_created">> ELSE <<>>
    IN  IF s.error
        THEN [exists |-> db.exists, rows |-> Rollback(db.rows, s.rows),
              ok |-> FALSE, inserted |-> 0, out |-> <<"Error">>]
        ELSE IF ins.ok
        THEN [exists |-> s.exists, rows |-> ins.rows, ok |-> TRUE,
              inserted |-> Cardinality(ins.rows \ s.rows), out |-> created]
        ELSE [exists |-> s.exists, rows |-> Rollback(s.rows, ins.rows),
              ok |-> FALSE, inserted |-> Cardinality(ins.rows \ s.rows),
              out |-> created \o <<"Error">>]

\* make_data(filepath)
MakeDataFromFile(db, file) ==
    LET s == EnsureSchema(db)
    IN  MakeData(db, s, ImportJson(s.rows, file))

\* make_data(): one result for each run of the generator
MakeDataFromRandom(db) ==
    LET s == EnsureSchema(db)
    IN  IF s.error THEN {MakeData(db, s, [ok |-> FALSE, rows |-> s.rows])}
        ELSE {MakeData(db, s, ins) : ins \in RandomFill(s.rows, GenStart)}

DB == [exists |-> table_exists, rows |-> offices]

NoStaffs == [none |-> TRUE, names |-> <<>>]

\* the loop is at choice = input(...)
Idle == ~raised /\ pc = "menu"

QueryReset ==
    /\ staffs' = NoStaffs
    /\ q_id' = NULL
    /\ q_eval' = FALSE
    /\ q_n' = 0
    /\ q_next' = NULL
    /\ q_third' = NULL

\* a menu case that calls make_data, res being what make_data did
Load(name, res) ==
    /\ table_exists' = res.exists
    /\ offices' = res.rows
    /\ op' = name
    /\ out' = res.out \o <<"data_loaded">>
    /\ raised' = FALSE
    /\ pc' = "handled"
    /\ inserted' = res.inserted
    /\ wiped' = (wiped /\ ~res.ok)
    /\ deleted' = IF res.ok THEN 0 ELSE deleted
    /\ QueryReset

\* menu case "1": db.make_data(filepath); print("Данные загружены")
MakeDataFile ==
    /\ Idle
    /\ \E file \in Files : Load("make_data_file", MakeDataFromFile(DB, file))
    /\ UNCHANGED gen

\* menu case "2": db.make_data(); print("Данные загружены")
MakeDataRandom ==
    /\ Idle
    /\ \E res \in MakeDataFromRandom(DB) : Load("make_data_random", res)
    /\ UNCHANGED gen

\* one next() on the generator, as executemany issues it
Resume ==
    /\ gen.pos # "done"
    /\ \E c \in CountDraws(gen), r \in SuffixDraws : gen' = GenResume(gen, c, r)
    /\ UNCHANGED storeVars

(***************************************************************************)
(* delete_all_data and menu case "4".                                      *)
(***************************************************************************)
\* variant: only the staff rows are deleted
DeleteFrom_StaffOnly(rows) == {r \in rows : r.type # TypeStaff}

\* DELETE FROM offices
DeleteFrom(rows) == {}

\* menu case "4": db.delete_all_data(); print("Данные успешно удалены");
\* the statement fails when the table does not exist
DeleteAllData ==
    /\ Idle
    /\ op' = "delete_all_data"
    /\ raised' = FALSE
    /\ pc' = "handled"
    /\ IF table_exists
       THEN /\ offices' = DeleteFrom(offices)
            /\ out' = <<"data_deleted">>
            /\ wiped' = TRUE
            /\ deleted' = Cardinality(offices \ DeleteFrom(offices))
       ELSE /\ offices' = Rollback(offices, offices)
            /\ out' = <<"Error", "data_deleted">>
            /\ UNCHANGED <<wiped, deleted>>
    /\ inserted' = 0
    /\ QueryReset
    /\ UNCHANGED <<table_exists, gen>>

\* the while loop comes round: the menu is printed and the next choice read;
\* nothing of the handled case is kept
Menu ==
    /\ ~raised
    /\ pc = "handled"
    /\ pc' = "menu"
    /\ op' = "menu"
    /\ out' = <<>>
    /\ inserted' = 0
    /\ QueryReset
    /\ UNCHANGED <<table_exists, offices, raised, wiped, deleted, gen>>

(***************************************************************************)
(* _get_staffs_by_staff_id: the recursive query.  PostgreSQL produces the  *)
(* rows of a recursive CTE on demand, one per request of the reading node: *)
(* first the row of the non-recursive term, then for the row produced last *)
(* the row the recursive term joins to it.  id is the primary key, so each *)
(* term yields at most one row and ancestors is a chain.                   *)
(***************************************************************************)
HasId(rows, id) == \E r \in rows : r.id = id

RowWithId(rows, id) == CHOOSE r \in rows : r.id = id

\* SELECT id, parent_id, type FROM offices WHERE id = %s
NonRecursiveTerm(rows, staff_id) ==
    IF HasId(rows, staff_id) THEN staff_id ELSE NULL

\* SELECT ... FROM offices JOIN ancestors ON ancestors.parent_id = offices.id
\* for the ancestors row id; a NULL parent_id joins nothing
RecursiveTerm(rows, id) ==
    LET p == RowWithId(rows, id).parent_id
    IN  IF p # NULL /\ HasId(rows, p) THEN p ELSE NULL

\* variant: the whole CTE is computed before the sub-select reads it
MoreRowsWanted_Eager(n) == TRUE

\* (SELECT id FROM ancestors OFFSET 2) as an expression: the reader skips
\* OFFSET rows, takes one row as the value and asks for one more row, whose
\* presence is an error; it asks for nothing after that
MoreRowsWanted(n) == n < OFFSET + 2

\* value of the sub-select once n rows of ancestors were read, third being
\* the row after the skipped ones: NULL when there is none, an error
\* ("more than one row returned by a subquery used as an expression") when
\* a further row followed it
ScalarSubquery(n, third) ==
    IF n > OFFSET + 1 THEN [error |-> TRUE, value |-> NULL]
    ELSE IF n = OFFSET + 1 THEN [error |-> FALSE, value |-> third]
    ELSE [error |-> FALSE, value |-> NULL]

\* variant: the departments of every office
DescendantDepartment_AnyOffice(rows, office) ==
    IF office = NULL THEN {}
    ELSE {r.id : r \in {d \in rows : d.type = TypeDepartment}}

\* descendant_department: WHERE type = 2 AND parent_id = (sub-select);
\* a comparison with NULL selects nothing
DescendantDepartment(rows, office) ==
    IF office = NULL THEN {}
    ELSE {r.id : r \in {d \in rows : d.type = TypeDepartment /\ d.parent_id = office}}

\* descendant_staff: WHERE type = 3 AND parent_id IN (descendant_department)
DescendantStaff(rows, departments) ==
    {r \in rows : r.type = TypeStaff /\ r.parent_id \in departments}

\* cursor.fetchall(): the names of the selected rows; the order of the rows
\* is the store's, so the result is kept as the bag of its names
FetchAll(selected) ==
    [n \in {r.name : r \in selected} |-> Cardinality({r \in selected : r.name = n})]

\* The sub-select is an uncorrelated expression, evaluated when the first
\* row reaches the comparison parent_id = (...).  A plan that tests type = 2,
\* type = 3 and the join first never evaluates it when no staff row has a
\* department row as parent; every plan evaluates it when one has.
JoinCandidates(rows) ==
    {s \in rows : s.type = TypeStaff /\
        \E d \in rows : d.type = TypeDepartment /\ d.id = s.parent_id}

EvalChoices(rows) == IF JoinCandidates(rows) # {} THEN {TRUE} ELSE BOOLEAN

\* menu case "3": db.print_staffs(staff_id), up to cursor.execute
PrintStaffs ==
    /\ Idle
    /\ \E id \in QueryIds, e \in EvalChoices(offices) :
        /\ q_id' = id
        /\ q_eval' = e
        /\ q_next' = IF table_exists THEN NonRecursiveTerm(offices, id) ELSE NULL
    /\ op' = "print_staffs"
    /\ out' = <<>>
    /\ raised' = FALSE
    /\ staffs' = NoStaffs
    /\ pc' = "execute"
    /\ q_n' = 0
    /\ q_third' = NULL
    /\ UNCHANGED <<table_exists, offices, inserted, wiped, deleted, gen>>

CanFetch ==
    /\ pc = "execute"
    /\ table_exists
    /\ q_eval
    /\ q_next # NULL
    /\ MoreRowsWanted(q_n)

\* the sub-select reads one more row of ancestors; the count stops at the
\* OFFSET + 2 rows the reader can tell apart
FetchAncestor ==
    /\ CanFetch
    /\ q_n' = IF q_n < OFFSET + 2 THEN q_n + 1 ELSE q_n
    /\ q_third' = IF q_n = OFFSET THEN q_next ELSE q_third
    /\ q_next' = RecursiveTerm(offices, q_next)
    /\ UNCHANGED <<table_exists, offices, op, out, raised, staffs, pc, inserted,
                   q_id, q_eval, wiped, deleted, gen>>

\* the rest of the statement, fetchall, the except branch (rollback, print,
\* fall through to an implicit return None) and print_staffs, whose map over
\* None raises TypeError into the menu loop
ReturnStaffs ==
    /\ pc = "execute"
    /\ ~CanFetch
    /\ LET sub == ScalarSubquery(q_n, q_third)
           error == ~table_exists \/ (q_eval /\ sub.error)
           office == IF q_eval THEN sub.value ELSE NULL
           selected == DescendantStaff(offices, DescendantDepartment(offices, office))
       IN  IF error
           THEN /\ staffs' = [none |-> TRUE, names |-> <<>>]
                /\ out' = <<"Error">>
                /\ raised' = TRUE
           ELSE /\ staffs' = [none |-> FALSE, names |-> FetchAll(selected)]
                /\ out' = <<"names">>
                /\ raised' = FALSE
    /\ pc' = "handled"
    /\ UNCHANGED <<table_exists, offices, op, inserted, q_id, q_eval, q_n, q_next,
                   q_third, wiped, deleted, gen>>

Init ==
    /\ table_exists = FALSE
    /\ offices = {}
    /\ op = "menu"
    /\ out = <<>>
    /\ raised = FALSE
    /\ staffs = NoStaffs
    /\ pc = "menu"
    /\ inserted = 0
    /\ q_id = NULL
    /\ q_eval = FALSE
    /\ q_n = 0
    /\ q_next = NULL
    /\ q_third = NULL
    /\ wiped = FALSE
    /\ deleted = 0
    /\ gen = GenStart

Next ==
    \/ MakeDataFile
    \/ MakeDataRandom
    \/ DeleteAllData
    \/ PrintStaffs
    \/ FetchAncestor
    \/ ReturnStaffs
    \/ Menu

Spec == Init /\ [][Next]_vars

\* the one thread of the program runs a started query to its return
LiveSpec == Spec /\ WF_vars(FetchAncestor) /\ WF_vars(ReturnStaffs)

GenNext == Resume

GenSpec == Init /\ [][GenNext]_vars

(***************************************************************************)
(* Vocabulary of the properties.                                           *)
(***************************************************************************)
LoadOps == {"make_data_file", "make_data_random"}

\* a make_data handler has ended
Loaded == pc = "handled" /\ op \in LoadOps

\* _get_staffs_by_staff_id has ended
Returned == pc = "handled" /\ op = "print_staffs"

Printed(line) == line \in Range(out)

\* a three-level forest: offices without parent, departments under an
\* office, staff under a department
ValidForest(rows) ==
    \A r \in rows :
        \/ r.type = TypeOffice /\ r.parent_id = NULL
        \/ r.type = TypeDepartment /\
              \E o \in rows : o.id = r.parent_id /\ o.type = TypeOffice
        \/ r.type = TypeStaff /\
              \E d \in rows : d.id = r.parent_id /\ d.type = TypeDepartment

\* the office that encloses the node id of a valid forest
OfficeOf(rows, id) ==
    LET r == RowWithId(rows, id)
    IN  IF r.type = TypeOffice THEN id
        ELSE IF r.type = TypeDepartment THEN r.parent_id
        ELSE RowWithId(rows, r.parent_id).parent_id

\* the staff whose department belongs to office
StaffOfOffice(rows, office) ==
    {s \in rows : s.type = TypeStaff /\
        \E d \in rows : /\ d.type = TypeDepartment
                        /\ d.id = s.parent_id
                        /\ d.parent_id = office}

NameBag(S) ==
    [n \in {r.name : r \in S} |-> Cardinality({r \in S : r.name = n})]

TypeOfId(rows, id) == RowWithId(rows, id).type

(***************************************************************************)
(* C1: in a valid forest a query for a Staff id returns exactly the names  *)
(* of the staff of the office that encloses it (itself included, staff of  *)
(* other offices excluded).                                                *)
(***************************************************************************)
C1_StaffQueryReturnsOffice ==
    (/\ Returned
     /\ table_exists
     /\ ValidForest(offices)
     /\ HasId(offices, q_id)
     /\ TypeOfId(offices, q_id) = TypeStaff)
    => /\ ~staffs.none
       /\ staffs.names = NameBag(StaffOfOffice(offices, OfficeOf(offices, q_id)))
       /\ \E n \in DOMAIN staffs.names : n = RowWithId(offices, q_id).name

\* a staff of an office with staff in two departments was queried while
\* another office has staff too
C1_Witness ==
    /\ Returned
    /\ ValidForest(offices)
    /\ HasId(offices, q_id)
    /\ TypeOfId(offices, q_id) = TypeStaff
    /\ LET mine == StaffOfOffice(offices, OfficeOf(offices, q_id))
       IN  /\ Cardinality({r.parent_id : r \in mine}) >= 2
           /\ \E r \in offices : r.type = TypeStaff /\ r \notin mine
    /\ ~staffs.none

(***************************************************************************)
(* C2: in a valid forest a query for an Office id or a Department id       *)
(* returns the names of the staff of the enclosing office, as a query for  *)
(* a Staff id of that office does.                                         *)
(***************************************************************************)
C2_OfficeOrDepartmentQuery ==
    (/\ Returned
     /\ table_exists
     /\ ValidForest(offices)
     /\ HasId(offices, q_id)
     /\ TypeOfId(offices, q_id) \in {TypeOffice, TypeDepartment})
    => /\ ~staffs.none
       /\ staffs.names = NameBag(StaffOfOffice(offices, OfficeOf(offices, q_id)))

(***************************************************************************)
(* C3: in every state of the store, the one before the first load creates  *)
(* the table included, a query for an id that no node has reads an empty   *)
(* ancestor chain and returns an empty list, with no error.                *)
(***************************************************************************)
C3_MissingIdReturnsEmpty ==
    (Returned /\ ~HasId(offices, q_id))
    => /\ q_n = 0
       /\ ~staffs.none
       /\ staffs.names = <<>>
       /\ ~raised
       /\ ~Printed("Error")

(***************************************************************************)
(* C4: after a committed wipe, and until a load commits, the table holds   *)
(* no row and every query returns an empty list.                           *)
(***************************************************************************)
C4_WipeEmptiesEveryQuery ==
    wiped => /\ offices = {}
             /\ Returned => (~staffs.none /\ staffs.names = <<>> /\ ~raised)

\* a query has returned after the wipe of a table that held rows
C4_Witness ==
    /\ wiped
    /\ Returned
    /\ deleted >= 3
    /\ q_eval
    /\ ~staffs.none

(***************************************************************************)
(* C5: a load is all-or-nothing: when a tuple of the batch cannot be       *)
(* inserted (too few fields, an id already in the table or earlier in the  *)
(* batch) the rows of the table are those before the load; otherwise they  *)
(* are those before the load and every row of the batch.  Stated at the    *)
(* prompt, for every file and every run of the generator the menu case     *)
(* can be given there.                                                     *)
(***************************************************************************)
BatchFails(rows, tuples) ==
    \E k \in 1..Len(tuples) :
        \/ Len(tuples[k]) # 4
        \/ \E r \in rows : r.id = tuples[k][1]
        \/ \E j \in 1..(k - 1) : tuples[j][1] = tuples[k][1]

RowsOf(tuples) ==
    {Row(tuples[k][1], tuples[k][2], tuples[k][3], tuples[k][4]) : k \in 1..Len(tuples)}

\* what a load of tuples must leave, and what res, the handler's result, is
AllOrNothing(before, tuples, res) ==
    IF BatchFails(before, tuples)
    THEN ~res.ok /\ res.rows = before
    ELSE res.ok /\ res.rows = before \cup RowsOf(tuples)

\* the generated load: it fails when a run's batch fails, leaving the rows
\* as they were, and when it succeeds it leaves the rows of a whole run
C5_LoadAllOrNothing ==
    [](pc = "menu" =>
        LET results == MakeDataFromRandom(DB)
            good == {run \in CreateRandomData : ~BatchFails(offices, run)}
            bad == {run \in CreateRandomData : BatchFails(offices, run)}
        IN  /\ \A file \in Files :
                  AllOrNothing(offices, GetData(file), MakeDataFromFile(DB, file))
            /\ \A res \in results : ~res.ok => res.rows = offices
            /\ (\E res \in results : ~res.ok) <=> (bad # {})
            /\ {res.rows : res \in {r \in results : r.ok}}
                  = {offices \cup RowsOf(run) : run \in good})

\* a load into a table that held rows has failed after its first INSERTs
\* had succeeded, and none of the rows it inserted is in the table
C5_Witness ==
    /\ Loaded
    /\ Printed("Error")
    /\ inserted >= 1
    /\ offices # {}

(***************************************************************************)
(* C6: a load that fails ends in an outcome its caller can tell from a     *)
(* success: the error reaches the menu case, which does not go on to       *)
(* report the data as loaded.                                              *)
(***************************************************************************)
C6_LoadFailureSurfaces ==
    (Loaded /\ Printed("Error")) => (raised /\ ~Printed("data_loaded"))

(***************************************************************************)
(* C7: at every yield of the generator the ids yielded so far are 1..n in  *)
(* order, an Office has no parent, and a Department (a Staff) has as       *)
(* parent the Office (the Department) yielded last before it.              *)
(***************************************************************************)
LastBefore(y, k, type) ==
    LET before == {j \in 1..(k - 1) : y[j][4] = type}
    IN  IF before = {} THEN NULL
        ELSE y[CHOOSE j \in before : \A m \in before : m <= j][1]

C7_GeneratorInvariant ==
    LET y == gen.yielded
    IN  \A k \in 1..Len(y) :
            /\ y[k][1] = k
            /\ y[k][4] \in {TypeOffice, TypeDepartment, TypeStaff}
            /\ y[k][4] = TypeOffice => y[k][2] = NULL
            /\ y[k][4] = TypeDepartment =>
                  (y[k][2] # NULL /\ y[k][2] = LastBefore(y, k, TypeOffice))
            /\ y[k][4] = TypeStaff =>
                  (y[k][2] # NULL /\ y[k][2] = LastBefore(y, k, TypeDepartment))

\* a run has ended that yielded a second office after an office of two
\* departments, the first of them with two staff
C7_Witness ==
    /\ gen.pos = "done"
    /\ LET y == gen.yielded
       IN  /\ \E k \in 1..Len(y) : y[k][4] = TypeOffice /\ k > 1
           /\ \E j, k \in 1..Len(y) :
                 /\ j < k
                 /\ y[j][4] = TypeDepartment /\ y[k][4] = TypeDepartment
                 /\ y[j][2] = y[k][2]
                 /\ Cardinality({m \in 1..Len(y) : y[m][4] = TypeStaff /\ y[m][2] = y[j][1]}) >= 2

(***************************************************************************)
(* C8: the schema step of make_data on an existing table creates nothing,  *)
(* raises nothing and keeps every row; run twice it leaves what one run    *)
(* leaves.                                                                 *)
(***************************************************************************)
C8_EnsureSchemaIdempotent ==
    [][(pc = "menu" /\ pc' = "handled" /\ op' \in LoadOps /\ table_exists)
        => LET once == EnsureSchema(DB)
               twice == EnsureSchema([exists |-> once.exists, rows |-> once.rows])
           IN  /\ ~once.created /\ ~once.error
               /\ once.exists /\ once.rows = offices
               /\ ~twice.created /\ ~twice.error
               /\ twice.exists = once.exists /\ twice.rows = once.rows
               /\ table_exists'
               /\ "db_created" \notin Range(out')
               /\ offices \subseteq offices']_vars

\* make_data has run on a table that existed and held rows, and has added
\* its batch to them
C8_Witness ==
    /\ Loaded
    /\ ~Printed("db_created")
    /\ ~Printed("Error")
    /\ Cardinality(offices) > inserted

(***************************************************************************)
(* C9: whatever rows a file has loaded, cycles of parents included, a      *)
(* started query reads at most OFFSET + 2 rows of ancestors and returns.   *)
(***************************************************************************)
C9_QueryTerminates ==
    /\ [](q_n <= OFFSET + 2)
    /\ (pc = "execute") ~> (pc = "handled")

\* the parents of id never end: id is on, or leads into, a cycle
RECURSIVE Endless(_, _, _)
Endless(rows, id, steps) ==
    IF id = NULL THEN FALSE
    ELSE IF steps = 0 THEN TRUE
    ELSE Endless(rows, RecursiveTerm(rows, id), steps - 1)

\* the query stopped reading ancestors of a node whose parents form a
\* cycle, in a table for which every plan evaluates the sub-select
C9_Witness ==
    /\ Returned
    /\ JoinCandidates(offices) # {}
    /\ HasId(offices, q_id)
    /\ Endless(offices, q_id, Cardinality(offices))
    /\ q_n = OFFSET + 2
    /\ q_next # NULL

(***************************************************************************)
(* C10: a query on a table built by loads and wipes returns a list of      *)
(* names, never None, also when the ancestor chain has more than three     *)
(* rows.  Stated for the tables that hold a staff row under a department   *)
(* row, where the result does not depend on the plan of the query.         *)
(***************************************************************************)
C10_QueryReturnsList ==
    (Returned /\ table_exists /\ JoinCandidates(offices) # {})
    => (~staffs.none /\ ~raised)

====
